---- MODULE Spec2Model ----
(***************************************************************************)
(* Flag lifecycle engine of the mosaic tile moderation backend.            *)
(*                                                                         *)
(*   aws-backend/lambda/toggle_flag.py   flag / unflag a tile (HTTP)       *)
(*   aws-backend/tile_manager.py         TileManager: list and delete      *)
(*                                       flagged tiles (CLI)               *)
(*                                                                         *)
(* The two DynamoDB tables are functions whose DOMAIN is the set of keys   *)
(* that hold an item.  Every handler is cut at its store calls, so that    *)
(* independent request handlers interleave at that granularity.  Time is   *)
(* counted in seconds.                                                     *)
(***************************************************************************)
EXTENDS Integers, Sequences, FiniteSets, TLC

VARIABLES
    now,               \* the wall clock (time.time(), datetime.utcnow()), in seconds
    flags_table,       \* TILE_FLAGS_TABLE: tile_hash -> item
    rate_limit_table,  \* RATE_LIMIT_TABLE: <<client_ip, current_minute>> -> item
    pc,                \* toggle_flag.lambda_handler: position of each running handler
    req,               \* toggle_flag.lambda_handler: the event each handler serves
    resp,              \* toggle_flag.lambda_handler: the response each handler returned
    history,           \* per tile hash: the last kind of completed write and how many
                       \* of that kind happened in a row (observer of the flag table)
    served,            \* the number of events handed to lambda_handler so far
    listing,           \* tile_manager list: the operator paging through the flags
    result,            \* tile_manager list: what the last list_flags call returned
    batch,             \* tile_manager delete: the delete_flags call in progress
    lookup,            \* get_flags.lambda_handler: the request served and its response
    admin,             \* admin_get_all_flags.lambda_handler: its response
    files,             \* the tile files on the reviewer's disk (paths that exist)
    review             \* tile_manager review: the interactive session

cliVars == <<listing, result, batch>>
lambdaVars == <<rate_limit_table, pc, req, resp, history, served>>
httpVars == <<lookup, admin>>
reviewVars == <<files, review>>
vars == <<now, flags_table, rate_limit_table, pc, req, resp, history, served,
          listing, result, batch, lookup, admin, files, review>>

----------------------------------------------------------------------------
(* Bounds of the model *)

NumProcs == 2
NumHashes == 2
NumClients == 2
MaxTicks == 2
MaxRequests == 3
MaxLimit == 2
NumListed == 3
NumPaged == 4
MaxBatch == 2
MaxQuarters == 4

Procs == 1..NumProcs
Hashes == 1..NumHashes
Clients == 1..NumClients
Methods == {"POST", "DELETE", "PUT"}
TilePaths == {"/tiles/x.png"}

(* Program constants *)

RateLimit == 10
SecondsPerMinute == 60
RateTtl == 3600
FlagTtl == 30 * 24 * 3600
SecondsPerDay == 24 * 3600

TickLen == SecondsPerMinute \div 2

----------------------------------------------------------------------------
(* Store primitives (boto3 Table calls) on a table held as a function *)

PutItem(tbl, key, item) ==
    [k \in DOMAIN tbl \cup {key} |-> IF k = key THEN item ELSE tbl[k]]

DeleteItem(tbl, key) ==
    [k \in DOMAIN tbl \ {key} |-> tbl[k]]

(* datetime.isoformat() and datetime.fromisoformat(): a timestamp is written
   as a date part and a time-of-day part, and read back from the two. *)
isoformat(t) ==
    [date |-> t \div SecondsPerDay, time |-> t % SecondsPerDay]

IsIso(s) ==
    DOMAIN s = {"date", "time"}

fromisoformat(s) ==
    s.date * SecondsPerDay + s.time

(* None is what item.get('flagged_at') gives for an item without the
   attribute; a string that is no timestamp is written [text |-> s] *)
None == [none |-> TRUE]

Texts == {"", "N/A"}

----------------------------------------------------------------------------
(* toggle_flag.py *)

current_minute(t) ==
    (t \div SecondsPerMinute) * SecondsPerMinute

rate_key(client_ip, t) ==
    <<client_ip, current_minute(t)>>

(* a check that compares with <= where the code compares with < *)
check_rate_limit_lenient(tbl, client_ip, t, ok) ==
    IF ~ok THEN TRUE
    ELSE IF rate_key(client_ip, t) \in DOMAIN tbl
         THEN tbl[rate_key(client_ip, t)].flag_count <= RateLimit
         ELSE TRUE

(* a check that fails closed: a store error on get_item denies the request *)
check_rate_limit_closed(tbl, client_ip, t, ok) ==
    IF ~ok THEN FALSE
    ELSE IF rate_key(client_ip, t) \in DOMAIN tbl
         THEN tbl[rate_key(client_ip, t)].flag_count < RateLimit
         ELSE TRUE

(* check_rate_limit: ok = FALSE is a store error on get_item (fails open) *)
check_rate_limit(tbl, client_ip, t, ok) ==
    IF ~ok THEN TRUE
    ELSE IF rate_key(client_ip, t) \in DOMAIN tbl
         THEN tbl[rate_key(client_ip, t)].flag_count < RateLimit
         ELSE TRUE

(* consume_rate_limit: update_item ADD flag_count 1 SET ttl; a store error is
   printed and swallowed, the table is then left as it was *)
consume_rate_limit(tbl, client_ip, t, ok) ==
    LET key == rate_key(client_ip, t)
        old == IF key \in DOMAIN tbl THEN tbl[key].flag_count ELSE 0
    IN  IF ~ok THEN tbl
        ELSE PutItem(tbl, key,
                     [flag_count |-> old + 1, ttl |-> current_minute(t) + RateTtl])

(* flag_tile, first store call: get_item; TRUE when the tile has an item *)
flag_tile_exists(tbl, tile_hash) ==
    tile_hash \in DOMAIN tbl

(* flag_tile, second store call: put_item of the new record *)
flag_tile_put(tbl, tile_hash, tile_path, client_ip, t) ==
    PutItem(tbl, tile_hash,
            [tile_hash |-> tile_hash,
             tile_path |-> tile_path,
             flag_status |-> "flagged",
             flagged_at |-> isoformat(t),
             flagged_by_ip |-> client_ip,
             ttl |-> t + FlagTtl])

(* a delete that is conditional on the item existing *)
unflag_tile_conditional(tbl, tile_hash, ok) ==
    IF ok /\ tile_hash \in DOMAIN tbl
    THEN [raised |-> FALSE, ret |-> TRUE, table |-> DeleteItem(tbl, tile_hash)]
    ELSE [raised |-> TRUE, ret |-> FALSE, table |-> tbl]

(* unflag_tile: delete_item, unconditional; raised = the store call failed *)
unflag_tile(tbl, tile_hash, ok) ==
    IF ok
    THEN [raised |-> FALSE, ret |-> TRUE, table |-> DeleteItem(tbl, tile_hash)]
    ELSE [raised |-> TRUE, ret |-> FALSE, table |-> tbl]

create_response(status_code, body) ==
    [statusCode |-> status_code, body |-> body]

NoRequest == [httpMethod |-> "", tileHash |-> 0, tilePath |-> "", clientIp |-> 0]
NoResponse == create_response(0, "")

(* history: the observer's update after a completed write to the flag table *)
Record(h, op) ==
    [history EXCEPT ![h] =
        IF @.op = op THEN [op |-> op, n |-> IF @.n < 2 THEN @.n + 1 ELSE 2]
        ELSE [op |-> op, n |-> 1]]

(* lambda_handler, lines 20-33: the event is read *)
Start(p, method, tile_hash, tile_path, client_ip) ==
    /\ pc[p] = "idle"
    /\ req' = [req EXCEPT ![p] = [httpMethod |-> method, tileHash |-> tile_hash,
                                  tilePath |-> tile_path, clientIp |-> client_ip]]
    /\ pc' = [pc EXCEPT ![p] = "check_rate_limit"]
    /\ UNCHANGED <<now, flags_table, rate_limit_table, resp, history, cliVars, httpVars, reviewVars>>

(* a check that reserves: the counter is incremented before it is compared,
   so a denied request is counted too *)
CheckRateLimit_reserving(p, ok) ==
    /\ pc[p] = "check_rate_limit"
    /\ IF ~check_rate_limit(rate_limit_table, req[p].clientIp, now, ok)
       THEN /\ resp' = [resp EXCEPT ![p] = create_response(429, "Rate limit exceeded")]
            /\ pc' = [pc EXCEPT ![p] = "done"]
            /\ rate_limit_table' =
                  consume_rate_limit(rate_limit_table, req[p].clientIp, now, ok)
       ELSE /\ UNCHANGED rate_limit_table
            /\ IF req[p].httpMethod = "POST"
               THEN /\ pc' = [pc EXCEPT ![p] = "flag_tile_get"]
                    /\ UNCHANGED resp
               ELSE IF req[p].httpMethod = "DELETE"
               THEN /\ pc' = [pc EXCEPT ![p] = "unflag_tile"]
                    /\ UNCHANGED resp
               ELSE /\ resp' = [resp EXCEPT ![p] =
                                   create_response(405, "Method not allowed")]
                    /\ pc' = [pc EXCEPT ![p] = "done"]
    /\ UNCHANGED <<now, flags_table, req, history, served, cliVars, httpVars, reviewVars>>

(* lambda_handler, lines 35-42, 58, 67: the rate-limit check, then the
   dispatch on the method *)
CheckRateLimit(p, ok) ==
    /\ pc[p] = "check_rate_limit"
    /\ IF ~check_rate_limit(rate_limit_table, req[p].clientIp, now, ok)
       THEN /\ resp' = [resp EXCEPT ![p] = create_response(429, "Rate limit exceeded")]
            /\ pc' = [pc EXCEPT ![p] = "done"]
       ELSE IF req[p].httpMethod = "POST"
       THEN /\ pc' = [pc EXCEPT ![p] = "flag_tile_get"]
            /\ UNCHANGED resp
       ELSE IF req[p].httpMethod = "DELETE"
       THEN /\ pc' = [pc EXCEPT ![p] = "unflag_tile"]
            /\ UNCHANGED resp
       ELSE /\ resp' = [resp EXCEPT ![p] = create_response(405, "Method not allowed")]
            /\ pc' = [pc EXCEPT ![p] = "done"]
    /\ UNCHANGED <<now, flags_table, rate_limit_table, req, history, served, cliVars, httpVars, reviewVars>>

(* flag_tile, lines 131-135 (and 52-56, 70-72 of the handler) *)
FlagTileGet(p, ok) ==
    /\ pc[p] = "flag_tile_get"
    /\ IF ~ok
       THEN /\ resp' = [resp EXCEPT ![p] = create_response(500, "Internal server error")]
            /\ pc' = [pc EXCEPT ![p] = "done"]
       ELSE IF flag_tile_exists(flags_table, req[p].tileHash)
       THEN /\ resp' = [resp EXCEPT ![p] = create_response(400, "Tile already flagged")]
            /\ pc' = [pc EXCEPT ![p] = "done"]
       ELSE /\ pc' = [pc EXCEPT ![p] = "flag_tile_put"]
            /\ UNCHANGED resp
    /\ UNCHANGED <<now, flags_table, rate_limit_table, req, history, served, cliVars, httpVars, reviewVars>>

(* flag_tile, lines 137-153 *)
FlagTilePut(p, ok) ==
    /\ pc[p] = "flag_tile_put"
    /\ IF ~ok
       THEN /\ resp' = [resp EXCEPT ![p] = create_response(500, "Internal server error")]
            /\ pc' = [pc EXCEPT ![p] = "done"]
            /\ UNCHANGED <<flags_table, history>>
       ELSE /\ flags_table' = flag_tile_put(flags_table, req[p].tileHash,
                                            req[p].tilePath, req[p].clientIp, now)
            /\ history' = Record(req[p].tileHash, "put")
            /\ pc' = [pc EXCEPT ![p] = "consume_rate_limit"]
            /\ UNCHANGED resp
    /\ UNCHANGED <<now, rate_limit_table, req, served, cliVars, httpVars, reviewVars>>

(* lambda_handler, lines 45-51 *)
ConsumeRateLimit(p, ok) ==
    /\ pc[p] = "consume_rate_limit"
    /\ rate_limit_table' = consume_rate_limit(rate_limit_table, req[p].clientIp, now, ok)
    /\ resp' = [resp EXCEPT ![p] = create_response(200, "flagged")]
    /\ pc' = [pc EXCEPT ![p] = "done"]
    /\ UNCHANGED <<now, flags_table, req, history, served, cliVars, httpVars, reviewVars>>

(* lambda_handler, lines 58-65, 70-72 *)
UnflagTile(p, ok) ==
    /\ pc[p] = "unflag_tile"
    /\ LET r == unflag_tile(flags_table, req[p].tileHash, ok)
       IN  /\ flags_table' = r.table
           /\ IF r.raised
              THEN /\ resp' = [resp EXCEPT ![p] =
                                  create_response(500, "Internal server error")]
                   /\ UNCHANGED history
              ELSE /\ resp' = [resp EXCEPT ![p] = create_response(200, "unflagged")]
                   /\ history' = Record(req[p].tileHash, "delete")
    /\ pc' = [pc EXCEPT ![p] = "done"]
    /\ UNCHANGED <<now, rate_limit_table, req, served, cliVars, httpVars, reviewVars>>

(* the handler has returned; the process serves the next event *)
Return(p) ==
    /\ pc[p] = "done"
    /\ pc' = [pc EXCEPT ![p] = "idle"]
    /\ req' = [req EXCEPT ![p] = NoRequest]
    /\ resp' = [resp EXCEPT ![p] = NoResponse]
    /\ UNCHANGED <<now, flags_table, rate_limit_table, history, served, cliVars, httpVars, reviewVars>>

(* time passes *)
Tick ==
    /\ now < MaxTicks * TickLen
    /\ now' = now + TickLen
    /\ UNCHANGED <<flags_table, lambdaVars, cliVars, httpVars, reviewVars>>

----------------------------------------------------------------------------
(* tile_manager.py: TileManager.list_flags *)

Min(a, b) == IF a < b THEN a ELSE b

Range(f) == {f[i] : i \in DOMAIN f}

(* base64: three bytes become four 6-bit characters; Pad stands for "=" *)
Pad == 64

RECURSIVE b64encode(_)
b64encode(bs) ==
    IF Len(bs) = 0 THEN <<>>
    ELSE IF Len(bs) = 1
    THEN <<bs[1] \div 4, (bs[1] % 4) * 16, Pad, Pad>>
    ELSE IF Len(bs) = 2
    THEN <<bs[1] \div 4, (bs[1] % 4) * 16 + bs[2] \div 16, (bs[2] % 16) * 4, Pad>>
    ELSE <<bs[1] \div 4, (bs[1] % 4) * 16 + bs[2] \div 16,
           (bs[2] % 16) * 4 + bs[3] \div 64, bs[3] % 64>>
         \o b64encode(SubSeq(bs, 4, Len(bs)))

(* b64decode: [ok, value]; ok = FALSE is binascii.Error (a length that is no
   multiple of four, padding anywhere but at the end) *)
RECURSIVE b64decode(_)
b64decode(cs) ==
    IF Len(cs) = 0 THEN [ok |-> TRUE, value |-> <<>>]
    ELSE IF Len(cs) < 4 \/ cs[1] = Pad \/ cs[2] = Pad
    THEN [ok |-> FALSE, value |-> <<>>]
    ELSE LET b1 == cs[1] * 4 + cs[2] \div 16
             b2 == (cs[2] % 16) * 16 + cs[3] \div 4
             b3 == (cs[3] % 4) * 64 + cs[4]
             rest == b64decode(SubSeq(cs, 5, Len(cs)))
         IN  IF cs[3] = Pad
             THEN [ok |-> cs[4] = Pad /\ Len(cs) = 4, value |-> <<b1>>]
             ELSE IF cs[4] = Pad
             THEN [ok |-> Len(cs) = 4, value |-> <<b1, b2>>]
             ELSE [ok |-> rest.ok, value |-> <<b1, b2, b3>> \o rest.value]

(* json.dumps / json.loads of a scan key {"tile_hash": "<hash>"}, as UTF-8
   bytes; the tile hash h is written as h times the letter chr(96 + h) *)
JsonPrefix == <<123, 34, 116, 105, 108, 101, 95, 104, 97, 115, 104, 34, 58, 32, 34>>
JsonSuffix == <<34, 125>>
HashStr(h) == [i \in 1..h |-> 96 + h]

json_dumps(key) ==
    JsonPrefix \o HashStr(key.tile_hash) \o JsonSuffix

(* the JSON documents {} and null *)
JsonEmptyObject == <<123, 125>>
JsonNull == <<110, 117, 108, 108>>
EmptyDict == <<>>

(* a scan key is a dict that holds the table's key attribute and no other *)
IsKey(k) ==
    DOMAIN k = {"tile_hash"}

(* json.loads: [ok, value]; ok = FALSE is json.JSONDecodeError.  The
   documents read are the scan keys json_dumps writes, {} and null *)
json_loads(bs) ==
    LET n == Len(JsonPrefix)
        m == Len(bs) - n - Len(JsonSuffix)
    IN  IF bs = JsonEmptyObject
        THEN [ok |-> TRUE, value |-> EmptyDict]
        ELSE IF bs = JsonNull
        THEN [ok |-> TRUE, value |-> None]
        ELSE IF /\ m \in 1..26
                /\ SubSeq(bs, 1, n) = JsonPrefix
                /\ SubSeq(bs, n + m + 1, Len(bs)) = JsonSuffix
                /\ SubSeq(bs, n + 1, n + m) = HashStr(m)
        THEN [ok |-> TRUE, value |-> [tile_hash |-> m]]
        ELSE [ok |-> FALSE, value |-> [tile_hash |-> 0]]

(* an encoder that writes the tile hash alone, not the JSON of the key *)
encode_key_bare(key) ==
    b64encode(HashStr(key.tile_hash))

(* list_flags, lines 89-94: the pagination token of a LastEvaluatedKey *)
encode_key(key) ==
    b64encode(json_dumps(key))

(* list_flags, lines 56-62: the ExclusiveStartKey of a pagination token;
   has = FALSE when there is no token or it cannot be decoded (a warning) *)
decode_key(last_key) ==
    LET raw == b64decode(last_key)
        parsed == json_loads(raw.value)
    IN  IF last_key = <<>> \/ ~raw.ok \/ ~parsed.ok
        THEN [has |-> FALSE, key |-> [tile_hash |-> 0]]
        ELSE [has |-> TRUE, key |-> parsed.value]

(* table.scan(Limit, FilterExpression, ExclusiveStartKey): the store reads
   at most Limit items after the start key in its own key order, then drops
   those the filter rejects; it returns a LastEvaluatedKey when it stopped
   at the limit *)
RECURSIVE KeysAfter(_, _)
KeysAfter(tbl, after) ==
    LET rest == {h \in DOMAIN tbl : h > after}
    IN  IF rest = {} THEN <<>>
        ELSE LET first == CHOOSE h \in rest : \A g \in rest : h <= g
             IN  <<first>> \o KeysAfter(tbl, first)

(* a scan that reads the start key again *)
scan_inclusive(tbl, limit, start) ==
    LET keys == KeysAfter(tbl, IF start.has THEN start.key.tile_hash - 1 ELSE 0)
        read == SubSeq(keys, 1, Min(limit, Len(keys)))
    IN  [Items |-> SelectSeq([i \in 1..Len(read) |-> tbl[read[i]]],
                             LAMBDA item : item.flag_status = "flagged"),
         ScannedCount |-> Len(read),
         HasLastEvaluatedKey |-> Len(read) = limit,
         LastEvaluatedKey |->
             [tile_hash |-> IF Len(read) = 0 THEN 0 ELSE read[Len(read)]]]

(* table.scan as the store performs it: the start key is exclusive *)
scan(tbl, limit, start) ==
    LET keys == KeysAfter(tbl, IF start.has THEN start.key.tile_hash ELSE 0)
        read == SubSeq(keys, 1, Min(limit, Len(keys)))
    IN  [Items |-> SelectSeq([i \in 1..Len(read) |-> tbl[read[i]]],
                             LAMBDA item : item.flag_status = "flagged"),
         ScannedCount |-> Len(read),
         HasLastEvaluatedKey |-> Len(read) = limit,
         LastEvaluatedKey |->
             [tile_hash |-> IF Len(read) = 0 THEN 0 ELSE read[Len(read)]]]

(* table.scan raises when the store fails (ok = FALSE) and when the
   ExclusiveStartKey it is given is not a key of the table (a validation
   error of the store) *)
scan_raises(start, ok) ==
    ~ok \/ (start.has /\ ~IsKey(start.key))

(* list_flags, lines 67-76 *)
format_flag(item) ==
    [tileHash |-> item.tile_hash,
     tilePath |-> item.tile_path,
     flaggedAt |-> IF "flagged_at" \in DOMAIN item THEN item.flagged_at ELSE None,
     flagStatus |-> item.flag_status,
     ttl |-> item.ttl]

(* str comparison.  Two isoformat() strings: date first, then time of day.
   Otherwise by the first character: "" is below every other string, and an
   isoformat() string starts with a digit of the year, below the "N" of
   "N/A" *)
StrRank(a) ==
    IF a = [text |-> ""] THEN 0 ELSE IF a = [text |-> "N/A"] THEN 2 ELSE 1

StrLess(a, b) ==
    IF DOMAIN a = {"date", "time"} /\ DOMAIN b = {"date", "time"}
    THEN a.date < b.date \/ (a.date = b.date /\ a.time < b.time)
    ELSE StrRank(a) < StrRank(b)

(* list_flags, line 79: the sort compares the keys with <, and None < str,
   str < None and None < None raise TypeError; a list of two or more
   elements has every element in at least one comparison *)
sort_raises(flags) ==
    Len(flags) >= 2 /\ \E i \in 1..Len(flags) : flags[i].flaggedAt = None

(* list_flags, line 79: flags.sort(key=flaggedAt, reverse=True), stable *)
RECURSIVE sort_desc(_)
sort_desc(flags) ==
    IF Len(flags) = 0 THEN <<>>
    ELSE LET sorted == sort_desc(SubSeq(flags, 1, Len(flags) - 1))
             x == flags[Len(flags)]
             k == Cardinality({i \in 1..Len(sorted) :
                                 ~StrLess(sorted[i].flaggedAt, x.flaggedAt)})
         IN  SubSeq(sorted, 1, k) \o <<x>> \o SubSeq(sorted, k + 1, Len(sorted))

(* list_flags, lines 103-104: (now - flag_date).days *)
days_ago(t, flagged_at) ==
    (t - fromisoformat(flagged_at)) \div SecondsPerDay

(* list_flags, lines 96-118: the summary of one page *)
today_of(t, flag) ==
    IsIso(flag.flaggedAt) /\ days_ago(t, flag.flaggedAt) = 0

this_week_of(t, flag) ==
    IsIso(flag.flaggedAt) /\ days_ago(t, flag.flaggedAt) <= 7

(* a summary whose try block is around the loop: the first bad timestamp
   ends the aggregation *)
summary_aborting(flags, t) ==
    LET bad == {i \in 1..Len(flags) : ~IsIso(flags[i].flaggedAt)}
        seen == {i \in 1..Len(flags) : \A j \in bad : i < j}
    IN  [total |-> Len(flags),
         today |-> Cardinality({i \in seen : today_of(t, flags[i])}),
         thisWeek |-> Cardinality({i \in seen : this_week_of(t, flags[i])}),
         retrievedAt |-> isoformat(t)]

summary(flags, t) ==
    [total |-> Len(flags),
     today |-> Cardinality({i \in 1..Len(flags) : today_of(t, flags[i])}),
     thisWeek |-> Cardinality({i \in 1..Len(flags) : this_week_of(t, flags[i])}),
     retrievedAt |-> isoformat(t)]

NoResult ==
    [raised |-> FALSE, flags |-> <<>>, count |-> 0, scannedCount |-> 0,
     hasMore |-> FALSE, nextKey |-> <<>>, summary |-> summary(<<>>, 0)]

(* list_flags does not return: an exception of line 65 or line 79 leaves it *)
Raised ==
    [NoResult EXCEPT !.raised = TRUE]

(* list_flags, lines 37-120 *)
list_flags(tbl, limit, last_key, t) ==
    LET start == decode_key(last_key)
        response == scan(tbl, Min(limit, 1000), start)
        formatted == [i \in 1..Len(response.Items) |->
                         format_flag(response.Items[i])]
        flags == sort_desc(formatted)
    IN  IF scan_raises(start, TRUE) THEN Raised
        ELSE IF sort_raises(formatted) THEN Raised
        ELSE [raised |-> FALSE,
              flags |-> flags,
              count |-> Len(flags),
              scannedCount |-> response.ScannedCount,
              hasMore |-> response.HasLastEvaluatedKey,
              nextKey |-> IF response.HasLastEvaluatedKey
                          THEN encode_key(response.LastEvaluatedKey)
                          ELSE <<>>,
              summary |-> summary(flags, t)]

NoListing ==
    [pc |-> "idle", limit |-> 0, last_key |-> <<>>, pages |-> <<>>, start |-> {}]

TileHashes(flags) ==
    [i \in 1..Len(flags) |-> flags[i].tileHash]

Flagged(tbl) ==
    {h \in DOMAIN tbl : tbl[h].flag_status = "flagged"}

(* the operator's bookkeeping after a `list` command: the page is noted and
   the printed --next-key, when there is one, is kept for the next command;
   raised = the command printed an error and aborted (lines 242-244) *)
Paged(limit, pages, start, r) ==
    [pc |-> IF r.raised THEN "raised" ELSE IF r.hasMore THEN "paging" ELSE "done",
     limit |-> limit,
     last_key |-> r.nextKey,
     pages |-> Append(pages, TileHashes(r.flags)),
     start |-> start]

(* list command (lines 185-244) without --next-key: the first page *)
ListFirst(limit) ==
    /\ listing.pc = "idle"
    /\ result' = list_flags(flags_table, limit, <<>>, now)
    /\ listing' = Paged(limit, <<>>, Flagged(flags_table), result')
    /\ UNCHANGED <<now, flags_table, lambdaVars, batch, httpVars, reviewVars>>

(* list command (lines 185-244) with any string as --next-key *)
ListWith(limit, token) ==
    /\ listing.pc = "idle"
    /\ result' = list_flags(flags_table, limit, token, now)
    /\ listing' = Paged(limit, <<>>, Flagged(flags_table), result')
    /\ UNCHANGED <<now, flags_table, lambdaVars, batch, httpVars, reviewVars>>

(* list command (lines 185-244) with the --next-key of the page before *)
ListNext ==
    /\ listing.pc = "paging"
    /\ result' = list_flags(flags_table, listing.limit, listing.last_key, now)
    /\ listing' = Paged(listing.limit, listing.pages, listing.start, result')
    /\ UNCHANGED <<now, flags_table, lambdaVars, batch, httpVars, reviewVars>>

----------------------------------------------------------------------------
(* tile_manager.py: TileManager.delete_flags *)

Faults == {"none", "get_item", "delete_item"}

(* a loop body that does not count a missing tile in failed *)
delete_one_uncounted(tbl, tile_hash, fault) ==
    IF fault = "get_item"
    THEN [raised |-> FALSE, table |-> tbl, status |-> "error",
          deleted |-> 0, failed |-> 1]
    ELSE IF tile_hash \notin DOMAIN tbl
    THEN [raised |-> FALSE, table |-> tbl, status |-> "not_found",
          deleted |-> 0, failed |-> 0]
    ELSE IF fault = "delete_item"
    THEN [raised |-> FALSE, table |-> tbl, status |-> "error",
          deleted |-> 0, failed |-> 1]
    ELSE [raised |-> FALSE, table |-> DeleteItem(tbl, tile_hash),
          status |-> "deleted", deleted |-> 1, failed |-> 0]

(* a loop body whose get_item is outside the try block *)
delete_one_unguarded(tbl, tile_hash, fault) ==
    IF fault = "get_item"
    THEN [raised |-> TRUE, table |-> tbl, status |-> "error",
          deleted |-> 0, failed |-> 0]
    ELSE IF tile_hash \notin DOMAIN tbl
    THEN [raised |-> FALSE, table |-> tbl, status |-> "not_found",
          deleted |-> 0, failed |-> 1]
    ELSE IF fault = "delete_item"
    THEN [raised |-> FALSE, table |-> tbl, status |-> "error",
          deleted |-> 0, failed |-> 1]
    ELSE [raised |-> FALSE, table |-> DeleteItem(tbl, tile_hash),
          status |-> "deleted", deleted |-> 1, failed |-> 0]

(* a loop body that deletes the record and does not count it in deleted *)
delete_one_unreported(tbl, tile_hash, fault) ==
    IF fault = "get_item"
    THEN [raised |-> FALSE, table |-> tbl, status |-> "error",
          deleted |-> 0, failed |-> 1]
    ELSE IF tile_hash \notin DOMAIN tbl
    THEN [raised |-> FALSE, table |-> tbl, status |-> "not_found",
          deleted |-> 0, failed |-> 1]
    ELSE IF fault = "delete_item"
    THEN [raised |-> FALSE, table |-> tbl, status |-> "error",
          deleted |-> 0, failed |-> 1]
    ELSE [raised |-> FALSE, table |-> DeleteItem(tbl, tile_hash),
          status |-> "deleted", deleted |-> 0, failed |-> 1]

(* delete_flags, lines 140-169: one pass of the loop; fault names the store
   call that raises in this pass, if any.  raised = an exception leaves the
   loop body: never, the try block holds both store calls and the except
   clause catches every Exception *)
delete_one(tbl, tile_hash, fault) ==
    IF fault = "get_item"
    THEN [raised |-> FALSE, table |-> tbl, status |-> "error",
          deleted |-> 0, failed |-> 1]
    ELSE IF tile_hash \notin DOMAIN tbl
    THEN [raised |-> FALSE, table |-> tbl, status |-> "not_found",
          deleted |-> 0, failed |-> 1]
    ELSE IF fault = "delete_item"
    THEN [raised |-> FALSE, table |-> tbl, status |-> "error",
          deleted |-> 0, failed |-> 1]
    ELSE [raised |-> FALSE, table |-> DeleteItem(tbl, tile_hash),
          status |-> "deleted", deleted |-> 1, failed |-> 0]

NoBatch ==
    [pc |-> "idle", tile_hashes |-> <<>>, plan |-> <<>>, i |-> 0,
     results |-> [requested |-> 0, deleted |-> 0, failed |-> 0, details |-> <<>>]]

(* delete_flags, lines 132-137; plan is what the store will do at each pass *)
DeleteStart(tile_hashes, plan) ==
    /\ batch.pc = "idle"
    /\ batch' = [pc |-> "loop", tile_hashes |-> tile_hashes, plan |-> plan, i |-> 1,
                 results |-> [requested |-> Len(tile_hashes), deleted |-> 0,
                              failed |-> 0, details |-> <<>>]]
    /\ UNCHANGED <<now, flags_table, lambdaVars, listing, result, httpVars, reviewVars>>

(* delete_flags, lines 139-169: the next tile hash of the input *)
DeleteStep ==
    /\ batch.pc = "loop"
    /\ batch.i <= Len(batch.tile_hashes)
    /\ LET tile_hash == batch.tile_hashes[batch.i]
           r == delete_one(flags_table, tile_hash, batch.plan[batch.i])
       IN  /\ flags_table' = r.table
           /\ IF r.raised
              THEN batch' = [batch EXCEPT !.pc = "raised"]
              ELSE batch' = [batch EXCEPT
                  !.i = @ + 1,
                  !.results = [requested |-> @.requested,
                               deleted |-> @.deleted + r.deleted,
                               failed |-> @.failed + r.failed,
                               details |-> Append(@.details,
                                   [tileHash |-> tile_hash, status |-> r.status])]]
    /\ UNCHANGED <<now, lambdaVars, listing, result, httpVars, reviewVars>>

(* delete_flags, line 171: the loop is over, results is returned *)
DeleteReturn ==
    /\ batch.pc = "loop"
    /\ batch.i > Len(batch.tile_hashes)
    /\ batch' = [batch EXCEPT !.pc = "done"]
    /\ UNCHANGED <<now, flags_table, lambdaVars, listing, result, httpVars, reviewVars>>

----------------------------------------------------------------------------
(* get_flags.py *)

MaxKeys == 100

NoLookup ==
    [pc |-> "idle", tile_hashes |-> <<>>, unprocessed |-> {}, resp |-> NoResponse]

(* get_tile_flags, lines 45-81: one batch_get_item for the keys of the
   request.  The store answers with the items of the keys it processed and
   names the others in UnprocessedKeys, which get_tile_flags prints; it
   raises when it fails (ok = FALSE) and when a key is given twice *)
get_tile_flags(tbl, tile_hashes, unprocessed, ok) ==
    LET requested == {tile_hashes[i] : i \in 1..Len(tile_hashes)}
        responses == (requested \cap DOMAIN tbl) \ unprocessed
    IN  [raised |-> ~ok \/ Cardinality(requested) < Len(tile_hashes),
         flags |-> [h \in responses |->
                      [flagged |-> TRUE,
                       flaggedAt |-> IF "flagged_at" \in DOMAIN tbl[h]
                                     THEN tbl[h].flagged_at ELSE [text |-> ""],
                       flagStatus |-> tbl[h].flag_status,
                       tilePath |-> tbl[h].tile_path]]]

(* get_flags.lambda_handler, lines 9-43; has_body = the event has a body,
   unprocessed = the keys the store leaves unprocessed in this call *)
GetFlags(has_body, tile_hashes, unprocessed, ok) ==
    /\ lookup.pc = "idle"
    /\ LET flags == get_tile_flags(flags_table, tile_hashes, unprocessed, ok)
       IN  lookup' =
             [pc |-> "done",
              tile_hashes |-> tile_hashes,
              unprocessed |-> unprocessed,
              resp |->
                 IF ~has_body
                 THEN create_response(400, "Request body required")
                 ELSE IF Len(tile_hashes) = 0
                 THEN create_response(400, "tileHashes array required")
                 ELSE IF Len(tile_hashes) > MaxKeys
                 THEN create_response(400, "Maximum 100 tile hashes per request")
                 ELSE IF flags.raised
                 THEN create_response(500, "Internal server error")
                 ELSE create_response(200, [success |-> TRUE,
                                            flags |-> flags.flags,
                                            count |-> Cardinality(DOMAIN flags.flags)])]
    /\ UNCHANGED <<now, flags_table, lambdaVars, cliVars, admin, reviewVars>>

(* the handler has returned *)
GetFlagsReturn ==
    /\ lookup.pc = "done"
    /\ lookup' = NoLookup
    /\ UNCHANGED <<now, flags_table, lambdaVars, cliVars, admin, reviewVars>>

----------------------------------------------------------------------------
(* admin_get_all_flags.py *)

NoAdmin ==
    [pc |-> "idle", resp |-> NoResponse]

(* str(e) of the exceptions that leave the try block of the handler: of the
   store (a failed scan, a start key it rejects) and of the sort *)
StoreErrorText == "An error occurred (InternalServerError) when calling the Scan operation"
KeyErrorText == "Invalid type for parameter ExclusiveStartKey"
SortErrorText == "'<' not supported between instances of 'NoneType' and 'str'"
ErrorTexts == {StoreErrorText, KeyErrorText, SortErrorText}

(* lambda_handler, lines 134-144 *)
admin_error(message) ==
    [statusCode |-> 500,
     body |-> [success |-> FALSE, error |-> "Internal server error",
               message |-> message]]

(* lambda_handler, lines 14-144: the listing code of list_flags (lines
   50-126), in a try block whose except clause answers 500 *)
admin_get_all_flags(tbl, method, limit, last_key, t, ok) ==
    LET r == list_flags(tbl, limit, last_key, t)
    IN  IF method = "OPTIONS"
        THEN [statusCode |-> 200, body |-> [message |-> "CORS preflight"]]
        ELSE IF ~ok
        THEN admin_error(StoreErrorText)
        ELSE IF scan_raises(decode_key(last_key), ok)
        THEN admin_error(KeyErrorText)
        ELSE IF r.raised
        THEN admin_error(SortErrorText)
        ELSE [statusCode |-> 200,
              body |-> [success |-> TRUE, flags |-> r.flags, count |-> r.count,
                        scannedCount |-> r.scannedCount, nextKey |-> r.nextKey,
                        hasMore |-> r.hasMore, summary |-> r.summary]]

AdminGetAllFlags(method, limit, last_key, ok) ==
    /\ admin.pc = "idle"
    /\ admin' = [pc |-> "done",
                 resp |-> admin_get_all_flags(flags_table, method, limit,
                                              last_key, now, ok)]
    /\ UNCHANGED <<now, flags_table, lambdaVars, cliVars, lookup, reviewVars>>

(* the handler has returned *)
AdminReturn ==
    /\ admin.pc = "done"
    /\ admin' = NoAdmin
    /\ UNCHANGED <<now, flags_table, lambdaVars, cliVars, lookup, reviewVars>>

----------------------------------------------------------------------------
(* tile_manager.py: review *)

NoReview ==
    [pc |-> "idle", batch_size |-> 0, last_key |-> <<>>, flags |-> <<>>,
     hasMore |-> FALSE, nextKey |-> <<>>, i |-> 0,
     reviewed_count |-> 0, unflagged_count |-> 0, deleted_count |-> 0,
     echo |-> "", tally |-> <<>>]

(* the three counters, as the summaries print them *)
Tally(rv) ==
    <<rv.reviewed_count, rv.unflagged_count, rv.deleted_count>>

(* review, lines 368-372: the loop is left by break, "Review Complete" *)
Complete(rv) ==
    [rv EXCEPT !.pc = "complete", !.tally = Tally(rv)]

(* review, lines 276-283 and 362-366: after the break of the prompt loop the
   next flag of the page is displayed; after the last flag of the page the
   session ends when the page has no hasMore, else the next page is fetched
   with the page's nextKey *)
NextTile(rv) ==
    IF rv.i < Len(rv.flags)
    THEN [rv EXCEPT !.pc = "prompt", !.i = @ + 1, !.reviewed_count = @ + 1]
    ELSE IF ~rv.hasMore
    THEN Complete(rv)
    ELSE [rv EXCEPT !.pc = "fetch", !.last_key = rv.nextKey]

(* review, lines 250-265 *)
ReviewStart(batch_size) ==
    /\ review.pc = "idle"
    /\ review' = [NoReview EXCEPT !.pc = "fetch", !.batch_size = batch_size]
    /\ UNCHANGED <<now, flags_table, lambdaVars, cliVars, httpVars, files>>

(* review, lines 267-283 (and 380-382 when list_flags raises) *)
ReviewFetch ==
    /\ review.pc = "fetch"
    /\ LET r == list_flags(flags_table, review.batch_size, review.last_key, now)
       IN  review' =
             IF r.raised
             THEN [review EXCEPT !.pc = "aborted", !.echo = "Error during review"]
             ELSE IF Len(r.flags) = 0
             THEN Complete([review EXCEPT !.echo = "No more flagged tiles to review!"])
             ELSE [review EXCEPT !.pc = "prompt", !.flags = r.flags,
                                 !.hasMore = r.hasMore, !.nextKey = r.nextKey,
                                 !.i = 1, !.reviewed_count = @ + 1, !.echo = ""]
    /\ UNCHANGED <<now, flags_table, lambdaVars, cliVars, httpVars, files>>

(* review, lines 292-310: open; ok = the viewer could be started *)
ReviewOpen(ok) ==
    /\ review.pc = "prompt"
    /\ review' = [review EXCEPT !.echo =
                     IF review.flags[review.i].tilePath = ""
                     THEN "No valid file path available"
                     ELSE IF ok THEN "Opened" ELSE "Failed to open file"]
    /\ UNCHANGED <<now, flags_table, lambdaVars, cliVars, httpVars, files>>

(* review, lines 312-321: unflag; delete_flags([tile_hash]) is one pass of
   its loop, fault names the store call that raises in it, if any *)
ReviewUnflag(fault) ==
    /\ review.pc = "prompt"
    /\ LET delete_result == delete_one(flags_table, review.flags[review.i].tileHash,
                                       fault)
       IN  /\ flags_table' = delete_result.table
           /\ review' =
                 IF delete_result.deleted > 0
                 THEN NextTile([review EXCEPT !.unflagged_count = @ + 1,
                                              !.echo = "Unflagged tile"])
                 ELSE NextTile([review EXCEPT !.echo = "Failed to unflag tile"])
    /\ UNCHANGED <<now, lambdaVars, cliVars, httpVars, files>>

(* review, lines 323-349 with the answer to click.confirm not looked at: the
   file is removed whatever the operator answers *)
ReviewDelete_unconfirmed(confirm, rm_ok, fault) ==
    /\ review.pc = "prompt"
    /\ LET file_path == review.flags[review.i].tilePath
           delete_result == delete_one(flags_table,
                                       review.flags[review.i].tileHash, fault)
       IN  IF file_path = "" \/ file_path \notin files \/ ~rm_ok
           THEN /\ review' = NextTile([review EXCEPT !.echo = "Failed to delete file"])
                /\ UNCHANGED <<flags_table, files>>
           ELSE /\ files' = files \ {file_path}
                /\ flags_table' = delete_result.table
                /\ review' = NextTile([review EXCEPT !.deleted_count = @ + 1,
                                                     !.echo = "Deleted file"])
    /\ UNCHANGED <<now, lambdaVars, cliVars, httpVars>>

(* review, lines 323-349: delete; confirm = the operator's answer to "Really
   delete file from disk", rm_ok = os.remove succeeds, fault as in unflag *)
ReviewDelete(confirm, rm_ok, fault) ==
    /\ review.pc = "prompt"
    /\ LET file_path == review.flags[review.i].tilePath
           delete_result == delete_one(flags_table,
                                       review.flags[review.i].tileHash, fault)
       IN  IF file_path = ""
           THEN /\ review' = NextTile([review EXCEPT
                                          !.echo = "No valid file path available"])
                /\ UNCHANGED <<flags_table, files>>
           ELSE IF file_path \notin files
           THEN /\ review' = NextTile([review EXCEPT !.echo = "File not found"])
                /\ UNCHANGED <<flags_table, files>>
           ELSE IF ~confirm
           THEN /\ review' = [review EXCEPT !.echo = "File deletion cancelled"]
                /\ UNCHANGED <<flags_table, files>>
           ELSE IF ~rm_ok
           THEN /\ review' = NextTile([review EXCEPT !.echo = "Failed to delete file"])
                /\ UNCHANGED <<flags_table, files>>
           ELSE /\ files' = files \ {file_path}
                /\ flags_table' = delete_result.table
                /\ review' = NextTile([review EXCEPT
                                  !.deleted_count = @ + 1,
                                  !.echo = IF delete_result.deleted > 0
                                           THEN "Also unflagged tile"
                                           ELSE "Deleted file"])
    /\ UNCHANGED <<now, lambdaVars, cliVars, httpVars>>

(* review, lines 351-352: continue *)
ReviewContinue ==
    /\ review.pc = "prompt"
    /\ review' = NextTile([review EXCEPT !.echo = ""])
    /\ UNCHANGED <<now, flags_table, lambdaVars, cliVars, httpVars, files>>

(* review, lines 354-360: quit *)
ReviewQuit ==
    /\ review.pc = "prompt"
    /\ review' = [review EXCEPT !.pc = "quit", !.tally = Tally(review),
                                !.echo = "Review session ended."]
    /\ UNCHANGED <<now, flags_table, lambdaVars, cliVars, httpVars, files>>

(* review, lines 374-382: the operator's interrupt (SIGINT).  While
   list_flags runs (line 269) it is a KeyboardInterrupt, which the handler of
   lines 374-379 answers with the summary.  While the session waits in
   click.prompt (lines 286-290) click catches the KeyboardInterrupt and
   raises click.Abort instead (a RuntimeError), which reaches the handler of
   lines 380-382: the error line is printed, Abort is raised again and no
   summary is printed *)
ReviewInterrupt ==
    /\ review.pc \in {"fetch", "prompt"}
    /\ review' =
          IF review.pc = "fetch"
          THEN [review EXCEPT !.pc = "interrupted", !.tally = Tally(review),
                              !.echo = "Review interrupted by user"]
          ELSE [review EXCEPT !.pc = "aborted", !.echo = "Error during review"]
    /\ UNCHANGED <<now, flags_table, lambdaVars, cliVars, httpVars, files>>

----------------------------------------------------------------------------
(* Specifications *)

EmptyTable == [k \in {} |-> 0]

(* no request handler is running, no rate-limit item exists *)
LambdaIdle ==
    /\ rate_limit_table = EmptyTable
    /\ pc = [p \in Procs |-> "idle"]
    /\ req = [p \in Procs |-> NoRequest]
    /\ resp = [p \in Procs |-> NoResponse]
    /\ history = [h \in Hashes |-> [op |-> "none", n |-> 0]]
    /\ served = 0

(* no CLI command is running *)
CliIdle ==
    /\ listing = NoListing
    /\ result = NoResult
    /\ batch = NoBatch

(* no get_flags or admin_get_all_flags handler is running; no review session
   is open and the reviewer's disk holds no tile file *)
OthersIdle ==
    /\ lookup = NoLookup
    /\ admin = NoAdmin
    /\ review = NoReview
    /\ files = {}

Init ==
    /\ now = 0
    /\ flags_table = EmptyTable
    /\ LambdaIdle
    /\ CliIdle
    /\ OthersIdle

(* The steps of the toggle_flag.lambda_handler instances P after the event is
   read, every store call answering (TRUE) or failing (FALSE) as OKS allows *)
Handler(P, OKS) ==
    \/ \E p \in P, ok \in OKS : CheckRateLimit(p, ok)
    \/ \E p \in P, ok \in OKS : FlagTileGet(p, ok)
    \/ \E p \in P, ok \in OKS : FlagTilePut(p, ok)
    \/ \E p \in P, ok \in OKS : ConsumeRateLimit(p, ok)
    \/ \E p \in P, ok \in OKS : UnflagTile(p, ok)
    \/ \E p \in P : Return(p)

(* SpecSeq: one client's requests are served one after the other (a single
   handler), the store answers every call, time passes between any two steps *)
NextSeq ==
    \/ \E m \in Methods, h \in Hashes, tp \in TilePaths :
          Start(1, m, h, tp, 1) /\ UNCHANGED served
    \/ Handler({1}, {TRUE})
    \/ Tick

SpecSeq == Init /\ [][NextSeq]_vars

(* SpecFault: as SpecSeq, and any store call of the handler may fail.  A
   request is taken while the client's counter for the current window is at
   most one above the limit. *)
NextFault ==
    \/ \E m \in {"POST", "DELETE"}, h \in Hashes, tp \in TilePaths :
          /\ IF rate_key(1, now) \in DOMAIN rate_limit_table
             THEN rate_limit_table[rate_key(1, now)].flag_count <= RateLimit
             ELSE TRUE
          /\ Start(1, m, h, tp, 1)
          /\ UNCHANGED served
    \/ Handler({1}, BOOLEAN)
    \/ Tick

SpecFault == Init /\ [][NextFault]_vars

(* SpecList: the operator pages through a flag table that nothing else
   changes.  The table holds, for each of NumListed tile hashes, no item,
   an item of another status, or a flagged item, flagged within MaxQuarters
   quarter days before now (or one quarter day after it) or within
   MaxQuarters quarter days before the time seven days ago; now is early or
   late in a UTC day. *)
QuarterDay == SecondsPerDay \div 4
NowSamples == {9 * SecondsPerDay + QuarterDay \div 2,
               9 * SecondsPerDay + 2 * QuarterDay + QuarterDay \div 2}
Ages == {k * QuarterDay : k \in -1..MaxQuarters}
        \cup {7 * SecondsPerDay + k * QuarterDay : k \in 0..MaxQuarters}
Stored == ({"flagged"} \X Ages) \cup ({"cleared"} \X {0})

StoredItem(h, status, t) ==
    [tile_hash |-> h, tile_path |-> "/tiles/x.png", flag_status |-> status,
     flagged_at |-> isoformat(t), flagged_by_ip |-> 1, ttl |-> t + FlagTtl]

InitList ==
    /\ now \in NowSamples
    /\ \E D \in SUBSET (1..NumListed) :
         \E f \in [D -> Stored] :
            flags_table = [h \in D |-> StoredItem(h, f[h][1], now - f[h][2])]
    /\ LambdaIdle
    /\ CliIdle
    /\ OthersIdle

NextList ==
    \/ \E limit \in 1..MaxLimit : ListFirst(limit)
    \/ ListNext

SpecList == InitList /\ [][NextList]_vars

(* SpecPage: `list` commands over a flag table of up to NumPaged flagged
   records that nothing else changes.  The flagged_at of a record is a
   timestamp 0 hours, 3 hours, 2 days or 10 days before now, a string that is
   no timestamp, or missing; now is 01:30 or 12:00 of a UTC day. *)
SecondsPerHour == 3600
PageAges == {0, 3 * SecondsPerHour, 2 * SecondsPerDay, 10 * SecondsPerDay}
PageNows == {9 * SecondsPerDay + QuarterDay \div 4, 9 * SecondsPerDay + 2 * QuarterDay}

PageValues(t) ==
    {isoformat(t - a) : a \in PageAges} \cup {[text |-> s] : s \in Texts} \cup {None}

PageItem(h, v) ==
    IF v = None
    THEN [tile_hash |-> h, tile_path |-> "/tiles/x.png", flag_status |-> "flagged",
          flagged_by_ip |-> 1, ttl |-> FlagTtl]
    ELSE [tile_hash |-> h, tile_path |-> "/tiles/x.png", flag_status |-> "flagged",
          flagged_at |-> v, flagged_by_ip |-> 1, ttl |-> FlagTtl]

InitPage ==
    /\ now \in PageNows
    /\ \E D \in SUBSET (1..NumPaged) :
         \E f \in [D -> PageValues(now)] :
            flags_table = [h \in D |-> PageItem(h, f[h])]
    /\ LambdaIdle
    /\ CliIdle
    /\ OthersIdle

NextPage ==
    \/ \E limit \in {MaxLimit, NumPaged} : ListFirst(limit)
    \/ ListNext

SpecPage == InitPage /\ [][NextPage]_vars

(* SpecToken: a `list` command is given any --next-key: the token of a key,
   or a string that is no such token (base64 of {}, of null, of text that is
   no JSON, or no base64 at all); the commands after it follow the printed
   --next-key *)
BadTokens ==
    {b64encode(JsonEmptyObject), b64encode(JsonNull), b64encode(<<110, 111>>),
     <<26, 27, 28>>}
Tokens ==
    {encode_key([tile_hash |-> h]) : h \in 1..NumListed} \cup BadTokens

InitToken ==
    /\ now = 0
    /\ \E D \in SUBSET (1..NumListed) :
         \E f \in [D -> {"flagged", "cleared"}] :
            flags_table = [h \in D |-> StoredItem(h, f[h], 0)]
    /\ LambdaIdle
    /\ CliIdle
    /\ OthersIdle

NextToken ==
    \/ \E limit \in 1..MaxLimit, token \in Tokens : ListWith(limit, token)
    \/ ListNext

SpecToken == InitToken /\ [][NextToken]_vars

(* SpecCursor: `list` commands that start without a token and continue
   with the --next-key each one printed, on the tables of InitToken (every
   record carries a well-formed flagged_at, so no listing raises) *)
SpecCursor == InitToken /\ [][NextList]_vars

(* SpecBatch: delete_flags runs over any input of up to MaxBatch tile hashes
   (duplicates allowed) on any set of existing records, the store failing
   at any of its calls *)
RECURSIVE SeqsUpTo(_, _)
SeqsUpTo(S, n) ==
    IF n = 0 THEN {<<>>}
    ELSE SeqsUpTo(S, n - 1) \cup [1..n -> S]

InitBatch ==
    /\ now = 0
    /\ \E D \in SUBSET Hashes :
         flags_table = [h \in D |-> StoredItem(h, "flagged", 0)]
    /\ LambdaIdle
    /\ CliIdle
    /\ OthersIdle

NextBatch ==
    \/ \E tile_hashes \in SeqsUpTo(Hashes, MaxBatch) :
          \E plan \in [1..Len(tile_hashes) -> Faults] :
             DeleteStart(tile_hashes, plan)
    \/ DeleteStep
    \/ DeleteReturn

SpecBatch == InitBatch /\ [][NextBatch]_vars

(* Spec: MaxRequests events are served by concurrent handler instances that
   interleave at their store calls; the store answers every call *)
Admit(p, method, tile_hash, tile_path, client_ip) ==
    /\ served < MaxRequests
    /\ served' = served + 1
    /\ Start(p, method, tile_hash, tile_path, client_ip)

Next ==
    \/ \E p \in Procs, m \in {"POST", "DELETE"}, h \in Hashes, tp \in TilePaths,
          c \in Clients : Admit(p, m, h, tp, c)
    \/ Handler(Procs, {TRUE})
    \/ Tick

Spec == Init /\ [][Next]_vars

(* SpecRace: one client's flag-creation requests in the window in which it
   already created k flags, k up to the limit (the state k requests served
   one after the other leave: k records and a counter of k).  Up to
   MaxRequests further POST events, each for a tile that has no record and
   that no running handler was asked for, are served by concurrent handler
   instances that interleave at their store calls; an event goes to the
   first idle instance (the instances do not differ) *)
RaceHashes == 1..(RateLimit + MaxRequests)

InFlight == {req[p].tileHash : p \in Procs}

NewTile ==
    CHOOSE h \in RaceHashes \ (DOMAIN flags_table \cup InFlight) :
       \A g \in RaceHashes \ (DOMAIN flags_table \cup InFlight) : h <= g

InitRace ==
    /\ now = 0
    /\ \E k \in 0..RateLimit :
          /\ flags_table =
                [h \in 1..k |-> flag_tile_put(EmptyTable, h, "/tiles/x.png", 1, 0)[h]]
          /\ rate_limit_table =
                [key \in {rate_key(1, 0) : i \in 1..k} |->
                    [flag_count |-> k, ttl |-> current_minute(0) + RateTtl]]
          /\ history = [h \in RaceHashes |->
                          IF h <= k THEN [op |-> "put", n |-> 1]
                          ELSE [op |-> "none", n |-> 0]]
    /\ pc = [p \in Procs |-> "idle"]
    /\ req = [p \in Procs |-> NoRequest]
    /\ resp = [p \in Procs |-> NoResponse]
    /\ served = 0
    /\ CliIdle
    /\ OthersIdle

NextRace ==
    \/ \E p \in Procs :
          /\ \A q \in Procs : pc[q] = "idle" => p <= q
          /\ Admit(p, "POST", NewTile, "/tiles/x.png", 1)
    \/ \E p \in Procs : CheckRateLimit(p, TRUE)
    \/ \E p \in Procs : FlagTileGet(p, TRUE)
    \/ \E p \in Procs : FlagTilePut(p, TRUE)
    \/ \E p \in Procs : ConsumeRateLimit(p, TRUE)
    \/ \E p \in Procs : Return(p)
    \/ Tick

SpecRace == InitRace /\ [][NextRace]_vars

(* SpecHttp: MaxRequests toggle_flag events for one tile are served one
   after the other; between two store calls of that handler a get_flags or an
   admin_get_all_flags request is served (one store call each); any store
   call may fail, and batch_get_item may leave any of its keys unprocessed *)
AdminTokens ==
    {<<>>, encode_key([tile_hash |-> 1]), b64encode(JsonNull)}

NextHttp ==
    \/ /\ lookup.pc = "idle" /\ admin.pc = "idle"
       /\ \E m \in {"POST", "DELETE"}, h \in Hashes, tp \in TilePaths :
             Admit(1, m, h, tp, 1)
    \/ /\ lookup.pc = "idle" /\ admin.pc = "idle"
       /\ Handler({1}, BOOLEAN)
    \/ /\ admin.pc = "idle"
       /\ \E has_body \in BOOLEAN, tile_hashes \in SeqsUpTo(Hashes, MaxBatch),
             ok \in BOOLEAN :
             \E unprocessed \in SUBSET Range(tile_hashes) :
                GetFlags(has_body, tile_hashes, unprocessed, ok)
    \/ GetFlagsReturn
    \/ /\ lookup.pc = "idle"
       /\ \E method \in {"GET", "OPTIONS"}, limit \in 1..MaxLimit,
             last_key \in AdminTokens, ok \in BOOLEAN :
             AdminGetAllFlags(method, limit, last_key, ok)
    \/ AdminReturn

SpecHttp == Init /\ [][NextHttp]_vars

(* SpecReview: one review session over a flag table nothing else changes.
   Each tile hash has no item, an item of another status, or a flagged item
   whose tile_path is empty or one of two files; any of the files exists on
   the reviewer's disk; any store call of delete_flags and os.remove may
   fail *)
ReviewFiles == {"/tiles/x.png", "/tiles/y.png"}
ReviewStored == ({"flagged"} \X (ReviewFiles \cup {""})) \cup ({"cleared"} \X {""})

ReviewItem(h, status, tile_path) ==
    [tile_hash |-> h, tile_path |-> tile_path, flag_status |-> status,
     flagged_at |-> isoformat(0), flagged_by_ip |-> 1, ttl |-> FlagTtl]

InitReview ==
    /\ now = 0
    /\ \E D \in SUBSET Hashes :
         \E f \in [D -> ReviewStored] :
            flags_table = [h \in D |-> ReviewItem(h, f[h][1], f[h][2])]
    /\ files \in SUBSET ReviewFiles
    /\ LambdaIdle
    /\ CliIdle
    /\ lookup = NoLookup
    /\ admin = NoAdmin
    /\ review = NoReview

NextReview ==
    \/ \E batch_size \in 1..MaxLimit : ReviewStart(batch_size)
    \/ ReviewFetch
    \/ \E ok \in BOOLEAN : ReviewOpen(ok)
    \/ \E fault \in Faults : ReviewUnflag(fault)
    \/ \E confirm \in BOOLEAN, rm_ok \in BOOLEAN, fault \in Faults :
          ReviewDelete(confirm, rm_ok, fault)
    \/ ReviewContinue
    \/ ReviewQuit
    \/ ReviewInterrupt

SpecReview == InitReview /\ [][NextReview]_vars

----------------------------------------------------------------------------
(* Claims about toggle_flag.py *)

Count(client_ip, t) ==
    IF rate_key(client_ip, t) \in DOMAIN rate_limit_table
    THEN rate_limit_table[rate_key(client_ip, t)].flag_count
    ELSE 0

(* C1: of the flag_tile calls made for a tile hash since it last had no
   record, exactly one returns True (Created): two calls never both create
   the record, whatever the interleaving of their store calls.  (history[h]
   counts the put_item calls made for h since its last delete_item; flag_tile
   returns True exactly when it made its put_item.) *)
C1_OneCreated ==
    \A h \in Hashes : ~(history[h].op = "put" /\ history[h].n >= 2)

(* C2: while a record exists, no step changes its flagged_at or its
   flagged_by_ip (every step is one store call, so a record that is there
   before and after a step was not removed in between). *)
C2_RecordImmutable ==
    [][\A h \in DOMAIN flags_table \cap DOMAIN flags_table' :
          /\ flags_table'[h].flagged_at = flags_table[h].flagged_at
          /\ flags_table'[h].flagged_by_ip = flags_table[h].flagged_by_ip]_vars

(* no window counter exceeds the limit, and consume_rate_limit is reached
   only below it *)
C3_CounterBounded ==
    /\ \A k \in DOMAIN rate_limit_table : rate_limit_table[k].flag_count <= RateLimit
    /\ \A p \in Procs : pc[p] = "consume_rate_limit" =>
           Count(req[p].clientIp, now) < RateLimit

(* a check made with the counter at the limit answers 429 and writes nothing *)
C3_DeniedAtLimit ==
    \A p \in Procs :
       (pc[p] = "check_rate_limit" /\ pc'[p] # "check_rate_limit"
          /\ Count(req[p].clientIp, now) >= RateLimit)
       => (pc'[p] = "done" /\ resp'[p].statusCode = 429
             /\ rate_limit_table' = rate_limit_table /\ flags_table' = flags_table)

(* C3: with requests served one after the other and no store error, no
   window counter exceeds 10, a handler reaches consume_rate_limit only while
   its client's counter for the current window is below 10, and a request
   checked while that counter is at 10 or more is answered 429 at once (it
   reaches neither flag_tile nor consume_rate_limit). *)
C3_SequentialRateLimit ==
    []C3_CounterBounded /\ [][C3_DeniedAtLimit]_vars

(* C3 witness: a flag-creation request was denied with the counter at 10 *)
C3_Witness ==
    \E p \in Procs :
       /\ pc[p] = "done" /\ req[p].httpMethod = "POST"
       /\ resp[p].statusCode = 429
       /\ Count(req[p].clientIp, now) = RateLimit

(* C5: every unflag_tile call the store answers returns True and leaves no
   record for its tile hash, whether or not there was one: the handler
   answers 200 to the first and to the second DELETE in a row. *)
C5_UnflagIdempotent ==
    [][\A p \in Procs :
          (pc[p] = "unflag_tile" /\ pc'[p] = "done")
          => /\ unflag_tile(flags_table, req[p].tileHash, TRUE).ret = TRUE
             /\ resp'[p] = create_response(200, "unflagged")
             /\ req[p].tileHash \notin DOMAIN flags_table']_vars

(* C5 witness: the second of two unflag_tile calls in a row for one hash has
   returned *)
C5_Witness ==
    \E p \in Procs :
       /\ pc[p] = "done" /\ req[p].httpMethod = "DELETE"
       /\ resp[p].statusCode = 200
       /\ history[req[p].tileHash] = [op |-> "delete", n |-> 2]
       /\ req[p].tileHash \notin DOMAIN flags_table

(* C6: every DELETE request is answered with success and leaves no record
   for its tile hash, whatever the two tables hold. *)
C6_RemoveAlwaysSucceeds ==
    \A p \in Procs :
       (pc[p] = "done" /\ req[p].httpMethod = "DELETE")
       => (resp[p].statusCode = 200 /\ req[p].tileHash \notin DOMAIN flags_table)

(* a check whose store call errors returns True, whatever the counter *)
C15_Allowed ==
    \A c \in Clients : check_rate_limit(rate_limit_table, c, now, FALSE)

(* the handler step of such a check: a POST goes on to flag_tile, nothing is
   answered yet *)
C15_Processed ==
    \A p \in Procs :
       CheckRateLimit(p, FALSE)
       => (req[p].httpMethod = "POST"
             => pc'[p] = "flag_tile_get" /\ resp'[p] = resp[p])

(* C15: if the get_item of check_rate_limit errors, the check returns True
   whatever the client's counter holds, and a POST goes on to flag_tile as if
   under the limit: it is answered neither 429 nor 500 by the check. *)
C15_CheckFailsOpen ==
    []C15_Allowed /\ [][C15_Processed]_vars

(* C15 witness: a flag was created and counted for a client whose counter was
   already at the limit *)
C15_Witness ==
    \E p \in Procs :
       /\ pc[p] = "done" /\ req[p].httpMethod = "POST"
       /\ resp[p] = create_response(200, "flagged")
       /\ Count(req[p].clientIp, now) > RateLimit

----------------------------------------------------------------------------
(* Claims about tile_manager.py *)

RECURSIVE Flatten(_)
Flatten(pages) ==
    IF Len(pages) = 0 THEN <<>> ELSE Head(pages) \o Flatten(Tail(pages))

(* C4: following nextKey from the first page until a page has none, on a
   table nothing else changes: no tile hash is returned twice, and when the
   last page is reached the hashes returned are exactly those of the records
   with flag_status = flagged at the start of the scan. *)
C4_PaginationComplete ==
    LET all == Flatten(listing.pages)
    IN  /\ \A i, j \in 1..Len(all) : i # j => all[i] # all[j]
        /\ listing.pc = "done" => {all[i] : i \in 1..Len(all)} = listing.start

(* C4 witness: a scan of several pages over several flagged records and a
   record of another status has ended *)
C4_Witness ==
    /\ listing.pc = "done"
    /\ Len(listing.pages) >= 2
    /\ Cardinality(listing.start) >= 2
    /\ result.scannedCount > result.count

(* what delete_flags returns: the counts and one detail per input element *)
C7_Report ==
    batch.pc = "done" =>
       /\ batch.results.requested = Len(batch.tile_hashes)
       /\ batch.results.deleted + batch.results.failed = batch.results.requested
       /\ Len(batch.results.details) = Len(batch.tile_hashes)
       /\ \A i \in 1..Len(batch.tile_hashes) :
              batch.results.details[i].tileHash = batch.tile_hashes[i]

(* one pass of the loop in which the store answers both calls *)
C7_PerItem ==
    (batch.pc = "loop" /\ batch' # batch /\ batch.i <= Len(batch.tile_hashes)
       /\ batch.plan[batch.i] = "none")
    => LET h == batch.tile_hashes[batch.i]
           d == batch'.results.details[batch.i]
       IN  /\ Len(batch'.results.details) = batch.i
           /\ IF h \in DOMAIN flags_table
              THEN /\ d = [tileHash |-> h, status |-> "deleted"]
                   /\ h \notin DOMAIN flags_table'
                   /\ batch'.results.deleted = batch.results.deleted + 1
                   /\ batch'.results.failed = batch.results.failed
              ELSE /\ d = [tileHash |-> h, status |-> "not_found"]
                   /\ flags_table' = flags_table
                   /\ batch'.results.failed = batch.results.failed + 1
                   /\ batch'.results.deleted = batch.results.deleted

(* C7: delete_flags reports requested = the input's length, deleted + failed
   = requested and one detail per input element in input order; in a pass
   where the store answers, a hash that has a record is marked deleted and
   its record is removed, a hash that has none is marked not_found and
   counted in failed. *)
C7_BatchDelete ==
    []C7_Report /\ [][C7_PerItem]_vars

(* C7 witness: delete_flags([A, B]) with A present and B absent has returned
   requested 2, deleted 1, failed 1, A deleted and B not_found *)
C7_Witness ==
    /\ batch.pc = "done"
    /\ batch.tile_hashes = <<1, 2>>
    /\ batch.results = [requested |-> 2, deleted |-> 1, failed |-> 1,
                        details |-> <<[tileHash |-> 1, status |-> "deleted"],
                                      [tileHash |-> 2, status |-> "not_found"]>>]

(* no exception leaves delete_flags; what it returns reports every hash *)
C8_NeverRaises ==
    /\ batch.pc # "raised"
    /\ batch.pc = "done" => Len(batch.results.details) = Len(batch.tile_hashes)

(* one pass of the loop in which get_item or delete_item raises *)
C8_PerFault ==
    (batch.pc = "loop" /\ batch' # batch /\ batch.i <= Len(batch.tile_hashes)
       /\ \/ batch.plan[batch.i] = "get_item"
          \/ /\ batch.plan[batch.i] = "delete_item"
             /\ batch.tile_hashes[batch.i] \in DOMAIN flags_table)
    => /\ batch'.pc = "loop"
       /\ batch'.i = batch.i + 1
       /\ batch'.results.details =
             Append(batch.results.details,
                    [tileHash |-> batch.tile_hashes[batch.i], status |-> "error"])
       /\ batch'.results.failed = batch.results.failed + 1
       /\ flags_table' = flags_table

(* C8: a store error on the get_item or the delete_item of one hash marks
   that hash error, counts it in failed, leaves its record and goes on to the
   next hash; no exception leaves delete_flags, and what it returns reports
   every hash of the input. *)
C8_ErrorIsolated ==
    []C8_NeverRaises /\ [][C8_PerFault]_vars

(* C8 witness: delete_flags has returned, and after a hash marked error a
   later hash was deleted *)
C8_Witness ==
    /\ batch.pc = "done"
    /\ \E i, j \in 1..Len(batch.results.details) :
          /\ i < j
          /\ batch.results.details[i].status = "error"
          /\ batch.results.details[j].status = "deleted"

(* C9: today is the number of returned records whose flaggedAt is on the
   UTC calendar day of now. *)
C9_TodayIsUtcDay ==
    listing.pc # "idle" =>
       result.summary.today =
          Cardinality({i \in 1..Len(result.flags) :
                          result.flags[i].flaggedAt.date = isoformat(now).date})

(* C10: thisWeek is the number of returned records with now - flaggedAt of
   at most 7 days, and counts every record that today counts. *)
C10_ThisWeekIsSevenDays ==
    listing.pc # "idle" =>
       /\ result.summary.thisWeek =
             Cardinality({i \in 1..Len(result.flags) :
                now - fromisoformat(result.flags[i].flaggedAt) <= 7 * SecondsPerDay})
       /\ \A i \in 1..Len(result.flags) :
              today_of(now, result.flags[i]) => this_week_of(now, result.flags[i])

----------------------------------------------------------------------------
(* Claims about the listing of records of any flagged_at *)

(* list_flags has returned a page to the `list` command *)
Listed ==
    listing.pc \in {"paging", "done"}

(* C11: a listing of exactly four flagged records with flaggedAt = now, now
   minus 3 hours, now minus 2 days and now minus 10 days has the summary
   today = 1, thisWeek = 3, total = 4. *)
C11_SummaryExample ==
    (/\ Listed
     /\ Len(result.flags) = 4
     /\ \A i \in 1..4 : IsIso(result.flags[i].flaggedAt)
     /\ {now - fromisoformat(result.flags[i].flaggedAt) : i \in 1..4} = PageAges)
    => /\ result.summary.today = 1
       /\ result.summary.thisWeek = 3
       /\ result.summary.total = 4

(* the records of a page whose flaggedAt is a timestamp *)
Parseable(flags) ==
    SelectSeq(flags, LAMBDA flag : IsIso(flag.flaggedAt))

(* what the aggregation makes of a page: total counts every record, today
   and thisWeek are those of the page without its bad records, and a bad
   record is in neither *)
C12_Aggregates(flags, s) ==
    LET good == Parseable(flags)
    IN  /\ s.total = Len(flags)
        /\ s.today = Cardinality({i \in 1..Len(good) :
                                    days_ago(now, good[i].flaggedAt) = 0})
        /\ s.thisWeek = Cardinality({i \in 1..Len(good) :
                                       days_ago(now, good[i].flaggedAt) <= 7})
        /\ s.today <= Len(good) /\ s.thisWeek <= Len(good)

(* C12: the summary of every page list_flags returns has total = the number
   of records of the page, bad ones included, and today and thisWeek equal to
   those of the page without the records whose flaggedAt is missing or is no
   timestamp; the same holds of the aggregation (lines 96-118) applied to the
   records of the table in any scan order. *)
C12_BadTimestampSkipped ==
    /\ Listed => C12_Aggregates(result.flags, result.summary)
    /\ LET page == [i \in 1..Len(KeysAfter(flags_table, 0)) |->
                       format_flag(flags_table[KeysAfter(flags_table, 0)[i]])]
       IN  C12_Aggregates(page, summary(page, now))

(* C12 witness: a returned page holds a record without flaggedAt or with a
   flaggedAt that is no timestamp before a record that is counted *)
C12_Witness ==
    /\ Listed
    /\ \E i, j \in 1..Len(result.flags) :
          /\ i < j
          /\ ~IsIso(result.flags[i].flaggedAt)
          /\ IsIso(result.flags[j].flaggedAt)
    /\ result.summary.total > result.summary.thisWeek
    /\ result.summary.today > 0

(* C17: every `list` command returns a page, and the page is in descending
   order of flaggedAt with the records without flaggedAt last. *)
C17_SortedMissingLast ==
    listing.pc # "idle" =>
       /\ ~result.raised
       /\ \A i, j \in 1..Len(result.flags) :
              i < j =>
                 \/ result.flags[j].flaggedAt = None
                 \/ /\ result.flags[i].flaggedAt # None
                    /\ ~StrLess(result.flags[i].flaggedAt, result.flags[j].flaggedAt)

----------------------------------------------------------------------------
(* Claims about the pagination token *)

(* decoding the token of a key gives the key back *)
C13_RoundTrip ==
    \A h \in DOMAIN flags_table :
       decode_key(encode_key([tile_hash |-> h])) =
          [has |-> TRUE, key |-> [tile_hash |-> h]]

(* a `list` command that prints a --next-key: the token decodes to the
   LastEvaluatedKey of the scan the command made *)
C13_Resume ==
    (listing' # listing /\ listing'.pc = "paging")
    => LET response == scan(flags_table, Min(listing'.limit, 1000),
                            decode_key(listing.last_key))
       IN  /\ response.HasLastEvaluatedKey
           /\ decode_key(listing'.last_key) =
                 [has |-> TRUE, key |-> response.LastEvaluatedKey]

(* C13: for every key k of the flag table decode(encode(k)) = k, and the
   ExclusiveStartKey the next command decodes from a printed --next-key is
   the LastEvaluatedKey of the scan that printed it. *)
C13_CursorRoundTrip ==
    []C13_RoundTrip /\ [][C13_Resume]_vars

(* C13 witness: a page was scanned from a decoded token and a further token
   was printed; the keys of the table have tokens with and without padding *)
C13_Witness ==
    /\ listing.pc = "paging"
    /\ Len(listing.pages) >= 2
    /\ \E h, g \in DOMAIN flags_table :
          /\ encode_key([tile_hash |-> h])[Len(encode_key([tile_hash |-> h]))] = Pad
          /\ encode_key([tile_hash |-> g])[Len(encode_key([tile_hash |-> g]))] # Pad

(* C14: a `list` command given a --next-key that is not the token of a key
   returns what the command without --next-key returns, and never raises. *)
C14_MalformedTokenIgnored ==
    [][\A limit \in 1..MaxLimit, token \in BadTokens :
          ListWith(limit, token)
          => /\ ~result'.raised
             /\ result' = list_flags(flags_table, limit, <<>>, now)]_vars

----------------------------------------------------------------------------
(* Claims about the HTTP handlers *)

(* what the body of a get_flags answer holds beside success, flags and count *)
Surfaced(body) ==
    DOMAIN body \ {"success", "flags", "count"}

(* C16: in a successful get_flags answer, every requested tile hash that has
   a record is in the flags mapping, or the answer reports unprocessed
   entries to the caller. *)
C16_NothingDropped ==
    (lookup.pc = "done" /\ lookup.resp.statusCode = 200)
    => \A h \in Range(lookup.tile_hashes) :
          h \in DOMAIN flags_table
          => \/ h \in DOMAIN lookup.resp.body.flags
             \/ Surfaced(lookup.resp.body) # {}

(* C18: the 500 answer of toggle_flag, get_flags and admin_get_all_flags
   holds no text of the exception that caused it. *)
C18_NoErrorText ==
    /\ \A p \in Procs : resp[p].statusCode = 500 => resp[p].body \notin ErrorTexts
    /\ lookup.resp.statusCode = 500 => lookup.resp.body \notin ErrorTexts
    /\ admin.resp.statusCode = 500
          => \A k \in DOMAIN admin.resp.body \ {"success"} :
                admin.resp.body[k] \notin ErrorTexts

----------------------------------------------------------------------------
(* Claims about the review session *)

(* C19: in every state of a review session the deleted-files counter is at
   most the unflagged counter (a confirmed delete increments both). *)
C19_DeletedAtMostUnflagged ==
    review.deleted_count <= review.unflagged_count

(* C20: the unflag action on the displayed tile, the store answering, leaves
   no record for its tile hash, increments the unflagged counter by exactly
   one and no other counter, and goes on to the next tile, to the next page
   or to the end of the session: the same tile is not prompted again. *)
C20_UnflagRemoves ==
    [][ReviewUnflag("none")
       => /\ review.flags[review.i].tileHash \notin DOMAIN flags_table'
          /\ review'.unflagged_count = review.unflagged_count + 1
          /\ review'.deleted_count = review.deleted_count
          /\ review'.pc \in {"prompt", "fetch", "complete"}
          /\ review'.pc = "prompt" => review'.i = review.i + 1]_vars

(* C20 witness: a tile was unflagged, its record is gone, and the next tile
   of the page is displayed *)
C20_Witness ==
    /\ review.pc = "prompt"
    /\ review.i = 2
    /\ review.echo = "Unflagged tile"
    /\ review.unflagged_count = 1
    /\ review.flags[1].tileHash \notin DOMAIN flags_table

(* the page the pending fetch of the session returns *)
FetchedPage ==
    list_flags(flags_table, review.batch_size, review.last_key, now)

(* C21: a review session ends other than by quit only on a page without a
   nextKey (a page with hasMore never ends it, even when no flagged record
   is left on it after filtering), and a page with hasMore whose last tile
   was handled is followed by a fetch with that page's nextKey. *)
C21_EndsOnlyWithoutCursor ==
    [][/\ (review.pc = "fetch" /\ review'.pc = "complete")
             => ~FetchedPage.hasMore
       /\ (review.pc = "prompt" /\ review'.pc = "complete")
             => ~review.hasMore
       /\ (review.pc = "prompt" /\ review'.pc = "fetch")
             => /\ review.hasMore
                /\ review'.last_key = review.nextKey]_vars

(* C22: a review session that is cancelled at the action prompt, by the quit
   action or by an interrupt, prints the tally (reviewed, unflagged, deleted
   files) as it ends, and the printed values are the counters of that
   moment. *)
C22_CancelPrintsTally ==
    [][(review.pc = "prompt" /\ (ReviewQuit \/ ReviewInterrupt))
          => review'.tally = Tally(review)]_vars

(* the displayed tile has a file on disk, so that delete asks for the
   operator's confirmation *)
ConfirmAsked ==
    /\ review.pc = "prompt"
    /\ review.flags[review.i].tilePath # ""
    /\ review.flags[review.i].tilePath \in files

(* the session is at the same prompt of the same tile, nothing counted *)
C23_SameTile ==
    /\ review'.pc = "prompt"
    /\ review'.i = review.i
    /\ review'.flags = review.flags
    /\ review'.reviewed_count = review.reviewed_count

(* no record, no file and neither the unflagged nor the deleted counter
   changes *)
C23_NothingRemoved ==
    /\ flags_table' = flags_table
    /\ review'.unflagged_count = review.unflagged_count
    /\ review'.deleted_count = review.deleted_count

(* C23: open, continue and a delete whose confirmation is declined leave the
   flag table and the unflagged and deleted counters unchanged; open and the
   declined delete show the prompt of the same tile again, continue goes on
   to the next tile (of the page, else to the next page or the end). *)
C23_NoMutationActions ==
    [][/\ (\E ok \in BOOLEAN : ReviewOpen(ok))
             => (C23_NothingRemoved /\ C23_SameTile)
       /\ (ConfirmAsked /\ \E rm_ok \in BOOLEAN, fault \in Faults :
                              ReviewDelete(FALSE, rm_ok, fault))
             => (C23_NothingRemoved /\ C23_SameTile /\ files' = files)
       /\ ReviewContinue
             => /\ C23_NothingRemoved
                /\ review'.pc \in {"prompt", "fetch", "complete"}
                /\ review'.pc = "prompt"
                      => /\ review'.i = review.i + 1
                         /\ review'.reviewed_count = review.reviewed_count + 1
                /\ review'.pc # "prompt" => review.i = Len(review.flags)]_vars

(* C23 witness: after a continue the second tile is displayed, its delete
   was declined, and its record and its file are still there *)
C23_Witness ==
    /\ ConfirmAsked
    /\ review.i = 2
    /\ review.reviewed_count = 2
    /\ review.echo = "File deletion cancelled"
    /\ review.unflagged_count = 0
    /\ review.deleted_count = 0
    /\ review.flags[2].tileHash \in DOMAIN flags_table

----------------------------------------------------------------------------
(* Claims about the rate limit under concurrency and under store failures *)

(* the flags the client created in the current window *)
CreatedInWindow(client_ip) ==
    {h \in DOMAIN flags_table :
        /\ flags_table[h].flagged_by_ip = client_ip
        /\ current_minute(fromisoformat(flags_table[h].flagged_at))
              = current_minute(now)}

(* C24: the limit of 10 per minute is a soft bound under concurrency: the
   check and the consume are separate store operations, so handlers that
   pass the check together take the window counter above 10, by less than
   the number of concurrent handlers. *)
C24_SoftCeiling ==
    /\ Count(1, now) <= RateLimit + NumProcs - 1
    /\ Cardinality(CreatedInWindow(1)) <= RateLimit + NumProcs - 1

(* C24 witness: in one window the client created more than 10 flags, each
   for another tile, and its counter is above 10 *)
C24_Witness ==
    /\ Count(1, now) > RateLimit
    /\ Cardinality(CreatedInWindow(1)) > RateLimit
    /\ \A p \in Procs : resp[p].statusCode = 200

(* C25: a store failure in the consume step is not swallowed: a flag
   creation whose counter update did not happen does not answer 200
   'flagged' with the counter left as it was. *)
C25_ConsumeFailureSurfaced ==
    [][\A p \in Procs :
          (/\ pc[p] = "consume_rate_limit"
           /\ pc'[p] = "done"
           /\ resp'[p].statusCode = 200)
          => /\ rate_key(req[p].clientIp, now) \in DOMAIN rate_limit_table'
             /\ rate_limit_table'[rate_key(req[p].clientIp, now)].flag_count
                   = Count(req[p].clientIp, now) + 1]_vars

(* neither table is written *)
C26_NothingWritten ==
    /\ flags_table' = flags_table
    /\ rate_limit_table' = rate_limit_table

(* C26: a request that check_rate_limit denies is answered 429 and a create
   that finds the tile flagged is answered 400; from the step that decides
   either answer to the handler's return neither the flag table (no record
   created, none deleted, the existing one as it was) nor the client's
   rate-limit counter is written. *)
C26_RejectionChangesNothing ==
    [][\A p \in Procs :
          /\ (CheckRateLimit(p, TRUE)
                 /\ Count(req[p].clientIp, now) >= RateLimit)
                => resp'[p].statusCode = 429
          /\ (pc[p] = "check_rate_limit" /\ resp'[p].statusCode = 429)
                => (C26_NothingWritten /\ pc'[p] = "done")
          /\ (FlagTileGet(p, TRUE) /\ req[p].tileHash \in DOMAIN flags_table)
                => resp'[p].statusCode = 400
          /\ (pc[p] = "flag_tile_get" /\ resp'[p].statusCode = 400)
                => (C26_NothingWritten /\ pc'[p] = "done")
          /\ (pc[p] = "done" /\ resp[p].statusCode \in {429, 400}
                 /\ pc'[p] # "done")
                => (C26_NothingWritten /\ pc'[p] = "idle")]_vars

(* C26 witness: a create for a tile without a record was denied at a counter
   of 10; no record exists for it and the counter is still 10 *)
C26_Witness ==
    \E p \in Procs :
       /\ pc[p] = "done"
       /\ resp[p].statusCode = 429
       /\ req[p].httpMethod = "POST"
       /\ req[p].tileHash \notin DOMAIN flags_table
       /\ Count(req[p].clientIp, now) = RateLimit

====
